---------------------------- MODULE Spec2Model ----------------------------
(* A model of web_mini/css.py: the CSS minifier minify_css, a fixed         *)
(* sequence of sixteen text rewrites.  A text is a sequence of one-character *)
(* strings.  Every regular expression of the source is an operator pair:     *)
(* <stage>_pat(s, i) is the index of the last character of the match that    *)
(* starts at index i (0 when the pattern does not match there), and          *)
(* <stage>_repl(s, i, e) is the text that replaces the match s[i..e].  Sub   *)
(* walks the text with the two, as re.Pattern.sub does.                      *)
EXTENDS Integers, Sequences, FiniteSets, TLC

VARIABLES
  input,   \* the string minify_css was first called with
  css,     \* the local variable css of minify_css
  prev,    \* the value of css before the stage that ran last
  pc,      \* the number of the stage to run next; Done when minify_css returned
  run,     \* 1 in the first call, 2 in the call on the first call's output
  first,   \* the value the first call returned (<<>> until it returns)
  alpha    \* whether the rgba or the hsla stage of the first call converted a colour

vars == <<input, css, prev, pc, run, first, alpha>>

-----------------------------------------------------------------------------
(* Character classes of Python's re.                                         *)

\* \s
WS == {" ", "\n"}

\* \d
Digit == {"0", "1", "2", "3", "4", "5", "6", "7", "8", "9"}

Lower == {"a", "b", "c", "d", "e", "f", "g", "h", "i", "j", "k", "l", "m",
          "n", "o", "p", "q", "r", "s", "t", "u", "v", "w", "x", "y", "z"}

Upper == {"A", "B", "C", "D", "E", "F", "G", "H", "I", "J", "K", "L", "M",
          "N", "O", "P", "Q", "R", "S", "T", "U", "V", "W", "X", "Y", "Z"}

\* [a-zA-Z]
Alpha == Lower \cup Upper

\* [0-9a-fA-F]
HexDigit == Digit \cup {"a", "b", "c", "d", "e", "f", "A", "B", "C", "D", "E", "F"}

-----------------------------------------------------------------------------
(* What re.sub and str.replace do.                                           *)

\* lit occurs in s at index i
IsAt(s, i, lit) ==
  /\ i >= 1
  /\ i + Len(lit) - 1 <= Len(s)
  /\ SubSeq(s, i, i + Len(lit) - 1) = lit

\* lit occurs somewhere in s
Contains(s, lit) == \E i \in 1..Len(s) : IsAt(s, i, lit)

\* a greedy C*: the first index from i on whose character is not in C
RECURSIVE Span(_, _, _)
Span(s, i, C) == IF i <= Len(s) /\ s[i] \in C THEN Span(s, i + 1, C) ELSE i

\* the first index from i on where lit occurs, 0 when there is none
RECURSIVE Find(_, _, _)
Find(s, i, lit) ==
  IF i + Len(lit) - 1 > Len(s) THEN 0
  ELSE IF IsAt(s, i, lit) THEN i
  ELSE Find(s, i + 1, lit)

\* Pattern.sub from index i on: the leftmost match, then the leftmost match
\* after it, ...  E[j] is the end of the match that starts at j (0 when the
\* pattern does not match there) and R[j] the text that replaces that match
RECURSIVE Sub(_, _, _, _)
Sub(E, R, s, i) ==
  IF i > Len(s) THEN <<>>
  ELSE IF E[i] = 0 THEN <<s[i]>> \o Sub(E, R, s, i + 1)
  ELSE R[i] \o Sub(E, R, s, E[i] + 1)

\* str.replace(old, new)
Replace(s, old, new) ==
  Sub([i \in 1..Len(s) |-> IF IsAt(s, i, old) THEN i + Len(old) - 1 ELSE 0],
      [i \in 1..Len(s) |-> new], s, 1)

\* str.strip()
RECURSIVE RSpan(_, _, _)
RSpan(s, i, C) == IF i >= 1 /\ s[i] \in C THEN RSpan(s, i - 1, C) ELSE i

Strip(s) == SubSeq(s, Span(s, 1, WS), RSpan(s, Len(s), WS))

-----------------------------------------------------------------------------
(* Stage 1: the pattern /\*.*?\*/ with re.S, replaced by the empty string.   *)

css_remove_comments_pat(s, i) ==
  IF IsAt(s, i, <<"/", "*">>)
  THEN LET j == Find(s, i + 2, <<"*", "/">>) IN IF j = 0 THEN 0 ELSE j + 1
  ELSE 0

css_remove_comments_repl(s, i, e) == <<>>

css_remove_comments(s) ==
  LET E == [i \in 1..Len(s) |-> css_remove_comments_pat(s, i)]
  IN Sub(E,
         [i \in 1..Len(s) |->
            IF E[i] = 0 THEN <<>> ELSE css_remove_comments_repl(s, i, E[i])],
         s, 1)

(* Stage 2: the pattern \s*({|}|:|;|,)\s* replaced by group 1, then the two  *)
(* str.replace calls on the media query keyword, then strip().              *)

Punct == {"{", "}", ":", ";", ","}

\* the pattern without its trailing \s*
css_remove_whitespace_pat_lead(s, i) ==
  LET k == Span(s, i, WS) IN
  IF k <= Len(s) /\ s[k] \in Punct THEN k ELSE 0

css_remove_whitespace_pat(s, i) ==
  LET k == Span(s, i, WS) IN
  IF k <= Len(s) /\ s[k] \in Punct THEN Span(s, k + 1, WS) - 1 ELSE 0

css_remove_whitespace_repl(s, i, e) == <<s[Span(s, i, WS)]>>

css_remove_whitespace(s) ==
  LET E == [i \in 1..Len(s) |-> css_remove_whitespace_pat(s, i)]
      t == Sub(E,
               [i \in 1..Len(s) |->
                  IF E[i] = 0 THEN <<>> ELSE css_remove_whitespace_repl(s, i, E[i])],
               s, 1)
  IN Strip(Replace(Replace(t,
       <<"a", "n", "d", " ", "(">>, <<"a", "n", "d", "(">>),
       <<")", " ", "a", "n", "d">>, <<")", "a", "n", "d">>))

(* Stage 3: letters, =, a quoted selector value and ], replaced by the same *)
(* without the quotes.                                                      *)

\* [a-zA-Z0-9-_\.]: after the range 0-9 the hyphen is a literal
SelectorValue == Alpha \cup Digit \cup {"-", "_", "."}

css_unquote_selectors_pat(s, i) ==
  LET k == Span(s, i, Alpha)
      w == Span(s, k + 2, SelectorValue)
  IN IF k > i /\ IsAt(s, k, <<"=", "\"">>) /\ w > k + 2 /\ IsAt(s, w, <<"\"", "]">>)
     THEN w + 1 ELSE 0

css_unquote_selectors_repl(s, i, e) ==
  LET k == Span(s, i, Alpha)
  IN SubSeq(s, i, k - 1) \o <<"=">> \o SubSeq(s, k + 2, e - 2) \o <<"]">>

css_unquote_selectors(s) ==
  LET E == [i \in 1..Len(s) |-> css_unquote_selectors_pat(s, i)]
  IN Sub(E,
         [i \in 1..Len(s) |->
            IF E[i] = 0 THEN <<>> ELSE css_unquote_selectors_repl(s, i, E[i])],
         s, 1)

(* Stage 4: url( quote [^)]* the same quote ), replaced by the same without *)
(* the quotes.  [^)]* stops at the first closing parenthesis, which the     *)
(* closing quote must immediately precede.                                  *)

css_remove_url_quotes_pat(s, i) ==
  IF IsAt(s, i, <<"u", "r", "l", "(">>) /\ i + 4 <= Len(s) /\ s[i + 4] \in {"\"", "'"}
  THEN LET j == Find(s, i + 5, <<")">>) IN
       IF j >= i + 6 /\ s[j - 1] = s[i + 4] THEN j ELSE 0
  ELSE 0

css_remove_url_quotes_repl(s, i, e) ==
  <<"u", "r", "l", "(">> \o SubSeq(s, i + 5, e - 2) \o <<")">>

css_remove_url_quotes(s) ==
  LET E == [i \in 1..Len(s) |-> css_remove_url_quotes_pat(s, i)]
  IN Sub(E,
         [i \in 1..Len(s) |->
            IF E[i] = 0 THEN <<>> ELSE css_remove_url_quotes_repl(s, i, E[i])],
         s, 1)

(* Stage 5: str.replace of semicolon-brace by brace first, then the pattern *)
(* ;;+ replaced by the empty string.                                        *)

css_remove_semicolons_pat(s, i) ==
  IF IsAt(s, i, <<";", ";">>) THEN Span(s, i, {";"}) - 1 ELSE 0

css_remove_semicolons_repl(s, i, e) == <<>>

\* the arguments of str.replace exchanged
css_remove_semicolons_swapped(s) ==
  LET t == Replace(s, <<"}">>, <<";", "}">>)
      E == [i \in 1..Len(t) |-> css_remove_semicolons_pat(t, i)]
  IN Sub(E,
         [i \in 1..Len(t) |->
            IF E[i] = 0 THEN <<>> ELSE css_remove_semicolons_repl(t, i, E[i])],
         t, 1)

css_remove_semicolons(s) ==
  LET t == Replace(s, <<";", "}">>, <<"}">>)
      E == [i \in 1..Len(t) |-> css_remove_semicolons_pat(t, i)]
  IN Sub(E,
         [i \in 1..Len(t) |->
            IF E[i] = 0 THEN <<>> ELSE css_remove_semicolons_repl(t, i, E[i])],
         t, 1)

\* s[i], or the empty string outside s
At(s, i) == IF i >= 1 /\ i <= Len(s) THEN s[i] ELSE ""

\* a greedy [^C]*: the first index from i on whose character is in C
RECURSIVE SpanNot(_, _, _)
SpanNot(s, i, C) == IF i <= Len(s) /\ s[i] \notin C THEN SpanNot(s, i + 1, C) ELSE i

(* Stage 6: (border|opacity):none replaced by group 1 and :0.               *)

css_none_to_zero_pat(s, i) ==
  IF IsAt(s, i, <<"b", "o", "r", "d", "e", "r", ":", "n", "o", "n", "e">>) THEN i + 10
  ELSE IF IsAt(s, i, <<"o", "p", "a", "c", "i", "t", "y", ":", "n", "o", "n", "e">>) THEN i + 11
  ELSE 0

css_none_to_zero_repl(s, i, e) == SubSeq(s, i, e - 4) \o <<"0">>

css_none_to_zero(s) ==
  LET E == [i \in 1..Len(s) |-> css_none_to_zero_pat(s, i)]
  IN Sub(E,
         [i \in 1..Len(s) |->
            IF E[i] = 0 THEN <<>> ELSE css_none_to_zero_repl(s, i, E[i])],
         s, 1)

(* Stage 7: ([\s:])(0)(unit) replaced by groups 1 and 2.  The alternatives  *)
(* of the unit group are tried in the order written; the pattern ends with  *)
(* the group, so the first alternative that matches is the one taken.       *)

ZeroUnits == <<
  <<"e", "m">>,
  <<"e", "x">>,
  <<"c", "a", "p">>,
  <<"c", "h">>,
  <<"i", "c">>,
  <<"r", "e", "m">>,
  <<"l", "h">>,
  <<"r", "l", "h">>,
  <<"v", "w">>,
  <<"v", "h">>,
  <<"v", "i">>,
  <<"v", "b">>,
  <<"v", "m", "i", "n">>,
  <<"v", "m", "a", "x">>,
  <<"c", "q", "w">>,
  <<"c", "q", "h">>,
  <<"c", "q", "i">>,
  <<"c", "q", "b">>,
  <<"c", "q", "m", "i", "n">>,
  <<"c", "q", "m", "a", "x">>,
  <<"c", "m">>,
  <<"m", "m">>,
  <<"Q">>,
  <<"i", "n">>,
  <<"p", "c">>,
  <<"p", "t">>,
  <<"p", "x">>,
  <<"d", "e", "g">>,
  <<"g", "r", "a", "d">>,
  <<"r", "a", "d">>,
  <<"t", "u", "r", "n">>,
  <<"s">>,
  <<"m", "s">>,
  <<"H", "z">>,
  <<"k", "H", "z">>,
  <<"d", "p", "i">>,
  <<"d", "p", "c", "m">>,
  <<"d", "p", "p", "x">>,
  <<"x">>,
  <<"f", "r">>,
  <<"%">>>>

\* the length of the first alternative of the unit group that occurs at j, 0 when none does
UnitAt(s, j) ==
  LET K == {k \in 1..Len(ZeroUnits) : IsAt(s, j, ZeroUnits[k])}
  IN IF K = {} THEN 0
     ELSE Len(ZeroUnits[CHOOSE k \in K : \A m \in K : k <= m])

\* the pattern without a character before the zero: (0)(unit)
css_sub_zero_units_pat_bare(s, i) ==
  IF At(s, i + 1) = "0" /\ UnitAt(s, i + 2) > 0
  THEN i + 1 + UnitAt(s, i + 2)
  ELSE 0

css_sub_zero_units_pat(s, i) ==
  IF s[i] \in WS \cup {":"} /\ At(s, i + 1) = "0" /\ UnitAt(s, i + 2) > 0
  THEN i + 1 + UnitAt(s, i + 2)
  ELSE 0

css_sub_zero_units_repl(s, i, e) == <<s[i], "0">>

css_sub_zero_units(s) ==
  LET E == [i \in 1..Len(s) |-> css_sub_zero_units_pat(s, i)]
  IN Sub(E,
         [i \in 1..Len(s) |->
            IF E[i] = 0 THEN <<>> ELSE css_sub_zero_units_repl(s, i, E[i])],
         s, 1)

(* Stage 8: (:|\s)0+\.(\d+) replaced by group 1, a dot and group 2.         *)

css_shorten_floats_pat(s, i) ==
  LET z == Span(s, i + 1, {"0"})
      d == Span(s, z + 1, Digit)
  IN IF s[i] \in WS \cup {":"} /\ z > i + 1 /\ At(s, z) = "." /\ d > z + 1
     THEN d - 1 ELSE 0

css_shorten_floats_repl(s, i, e) ==
  <<s[i], ".">> \o SubSeq(s, Span(s, i + 1, {"0"}) + 1, e)

css_shorten_floats(s) ==
  LET E == [i \in 1..Len(s) |-> css_shorten_floats_pat(s, i)]
  IN Sub(E,
         [i \in 1..Len(s) |->
            IF E[i] = 0 THEN <<>> ELSE css_shorten_floats_repl(s, i, E[i])],
         s, 1)

-----------------------------------------------------------------------------
(* The colour converters clrs.rgb_to_hex, clrs.hsl_to_hex, clrs.rgba_to_hex  *)
(* and clrs.hsla_to_hex, and the table const.REPLACABLE_CLRS.  css.py calls *)
(* them and does not define them; they are modelled from their description: *)
(* each byte written as two lowercase hex digits after a #, the alpha byte  *)
(* round(a * 255) clamped to 0..255, the standard HSL to RGB conversion     *)
(* rounded to the nearest integer.  Percentages are read to whole percents, *)
(* a tie rounds up, a number is read up to its second dot.                  *)

DigitVal(c) ==
  CASE c = "0" -> 0 [] c = "1" -> 1 [] c = "2" -> 2 [] c = "3" -> 3 [] c = "4" -> 4
    [] c = "5" -> 5 [] c = "6" -> 6 [] c = "7" -> 7 [] c = "8" -> 8 [] c = "9" -> 9

HexChars == <<"0", "1", "2", "3", "4", "5", "6", "7", "8", "9", "a", "b", "c", "d", "e", "f">>

\* int(ds) of a sequence of decimal digits (0 for the empty one)
RECURSIVE ParseInt(_)
ParseInt(ds) ==
  IF ds = <<>> THEN 0
  ELSE 10 * ParseInt(SubSeq(ds, 1, Len(ds) - 1)) + DigitVal(ds[Len(ds)])

RECURSIVE Pow10(_)
Pow10(k) == IF k = 0 THEN 1 ELSE 10 * Pow10(k - 1)

\* format(n, "x")
RECURSIVE ToHex(_)
ToHex(n) == IF n < 16 THEN <<HexChars[n + 1]>> ELSE Append(ToHex(n \div 16), HexChars[(n % 16) + 1])

\* format(n, "02x")
HexByte(n) == IF n < 16 THEN <<"0">> \o ToHex(n) ELSE ToHex(n)

\* a capture of [\d.]+ as the fraction <<numerator, denominator>>
Number(cap) ==
  LET d1 == SpanNot(cap, 1, {"."})
      d2 == SpanNot(cap, d1 + 1, {"."})
      whole == SubSeq(cap, 1, d1 - 1)
      frac == SubSeq(cap, d1 + 1, d2 - 1)
  IN <<ParseInt(whole) * Pow10(Len(frac)) + ParseInt(frac), Pow10(Len(frac))>>

Clamp(n, lo, hi) == IF n < lo THEN lo ELSE IF n > hi THEN hi ELSE n

\* round(a * 255) clamped to 0..255, for the capture of the alpha channel
AlphaByte(cap) ==
  LET a == Number(cap) IN Clamp((2 * 255 * a[1] + a[2]) \div (2 * a[2]), 0, 255)

Abs(n) == IF n < 0 THEN 0 - n ELSE n

\* the bytes <<r, g, b>> of hsl(h, s%, l%)
HslToRgb(h, s, l) ==
  LET hh == h % 360
      ss == Clamp(s, 0, 100)
      ll == Clamp(l, 0, 100)
      cn == (100 - Abs(2 * ll - 100)) * ss
      c == 120 * cn
      x == 2 * cn * (60 - Abs((hh % 120) - 60))
      m == 60 * (200 * ll - cn)
      byte(v) == (2 * 255 * (v + m) + 1200000) \div 2400000
  IN CASE hh < 60  -> <<byte(c), byte(x), byte(0)>>
       [] hh < 120 -> <<byte(x), byte(c), byte(0)>>
       [] hh < 180 -> <<byte(0), byte(c), byte(x)>>
       [] hh < 240 -> <<byte(0), byte(x), byte(c)>>
       [] hh < 300 -> <<byte(x), byte(0), byte(c)>>
       [] OTHER    -> <<byte(c), byte(0), byte(x)>>

\* the whole percents of a capture of [\d.]+
Percent(cap) == Number(cap)[1] \div Number(cap)[2]

rgb_to_hex(r, g, b) ==
  <<"#">> \o HexByte(ParseInt(r)) \o HexByte(ParseInt(g)) \o HexByte(ParseInt(b))

rgba_to_hex(r, g, b, a) == rgb_to_hex(r, g, b) \o HexByte(AlphaByte(a))

hsl_to_hex(h, s, l) ==
  LET v == HslToRgb(ParseInt(h), Percent(s), Percent(l))
  IN <<"#">> \o HexByte(v[1]) \o HexByte(v[2]) \o HexByte(v[3])

hsla_to_hex(h, s, l, a) == hsl_to_hex(h, s, l) \o HexByte(AlphaByte(a))

\* keyword, hex value: the named colours whose hex form is shorter than the keyword
REPLACABLE_CLRS == <<
  <<<<"w", "h", "i", "t", "e">>, <<"#", "f", "f", "f">>>>,
  <<<<"b", "l", "a", "c", "k">>, <<"#", "0", "0", "0">>>>,
  <<<<"y", "e", "l", "l", "o", "w">>, <<"#", "f", "f", "0">>>>,
  <<<<"f", "u", "c", "h", "s", "i", "a">>, <<"#", "f", "0", "f">>>> >>

-----------------------------------------------------------------------------
(* The arguments of a colour function: the captures of                      *)
(*   name\((\d+),\s*(\d+),\s*(\d+)\)                          rgb           *)
(*   name\((\d+),\s*([\d.]+)%?,\s*([\d.]+)%?\)                hsl           *)
(* and of the same two with ,\s*([\d.]+) before the closing parenthesis     *)
(* (rgba, hsla).  Every class is followed by a character outside it, so the *)
(* greedy match is the only one.                                            *)

Numeric == Digit \cup {"."}

\* the index after an optional percent sign at j
Pct(s, j, pct) == IF pct /\ At(s, j) = "%" THEN j + 1 ELSE j

\* the first and last index of each capture when the arguments start at a
\* (C2 is the class of the second and third argument, pct whether %? follows
\* them, n the number of arguments), <<>> when the pattern does not match
Args(s, a, C2, pct, n) ==
  LET b1 == Span(s, a, Digit)
      a2 == Span(s, b1 + 1, WS)
      b2 == Span(s, a2, C2)
      a3 == Span(s, Pct(s, b2, pct) + 1, WS)
      b3 == Span(s, a3, C2)
      p3 == Pct(s, b3, pct)
      a4 == Span(s, p3 + 1, WS)
      b4 == Span(s, a4, Numeric)
  IN IF /\ b1 > a /\ At(s, b1) = ","
        /\ b2 > a2 /\ At(s, Pct(s, b2, pct)) = ","
        /\ b3 > a3
     THEN IF n = 3
          THEN IF At(s, p3) = ")"
               THEN <<<<a, b1 - 1>>, <<a2, b2 - 1>>, <<a3, b3 - 1>>, <<p3, p3>>>>
               ELSE <<>>
          ELSE IF At(s, p3) = "," /\ b4 > a4 /\ At(s, b4) = ")"
               THEN <<<<a, b1 - 1>>, <<a2, b2 - 1>>, <<a3, b3 - 1>>, <<a4, b4 - 1>>, <<b4, b4>>>>
               ELSE <<>>
     ELSE <<>>

\* the end of the match, 0 when there is none
ArgsEnd(g) == IF g = <<>> THEN 0 ELSE g[Len(g)][2]

\* capture k
Group(s, g, k) == SubSeq(s, g[k][1], g[k][2])

(* Stage 9: rgb(...) replaced by clrs.rgb_to_hex of the match.              *)

RgbArgs(s, i) ==
  IF IsAt(s, i, <<"r", "g", "b", "(">>) THEN Args(s, i + 4, Digit, FALSE, 3) ELSE <<>>

css_rgb2hex_pat(s, i) == ArgsEnd(RgbArgs(s, i))

css_rgb2hex_repl(s, i, e) ==
  LET g == RgbArgs(s, i) IN rgb_to_hex(Group(s, g, 1), Group(s, g, 2), Group(s, g, 3))

css_rgb2hex(s) ==
  LET E == [i \in 1..Len(s) |-> css_rgb2hex_pat(s, i)]
  IN Sub(E,
         [i \in 1..Len(s) |->
            IF E[i] = 0 THEN <<>> ELSE css_rgb2hex_repl(s, i, E[i])],
         s, 1)

(* Stage 10: hsl(...) replaced by clrs.hsl_to_hex of the match.             *)

HslArgs(s, i) ==
  IF IsAt(s, i, <<"h", "s", "l", "(">>) THEN Args(s, i + 4, Numeric, TRUE, 3) ELSE <<>>

css_hsl2hex_pat(s, i) == ArgsEnd(HslArgs(s, i))

css_hsl2hex_repl(s, i, e) ==
  LET g == HslArgs(s, i) IN hsl_to_hex(Group(s, g, 1), Group(s, g, 2), Group(s, g, 3))

css_hsl2hex(s) ==
  LET E == [i \in 1..Len(s) |-> css_hsl2hex_pat(s, i)]
  IN Sub(E,
         [i \in 1..Len(s) |->
            IF E[i] = 0 THEN <<>> ELSE css_hsl2hex_repl(s, i, E[i])],
         s, 1)

(* Stage 11: for every entry of the table, in its order, every occurrence   *)
(* of a colon and the keyword is replaced by the entry's value.             *)

RECURSIVE SubClrsFrom(_, _)
SubClrsFrom(s, k) ==
  IF k > Len(REPLACABLE_CLRS) THEN s
  ELSE SubClrsFrom(Replace(s, <<":">> \o REPLACABLE_CLRS[k][1], REPLACABLE_CLRS[k][2]), k + 1)

\* the arguments of str.replace exchanged: the value is replaced by the keyword
RECURSIVE SubClrsSwappedFrom(_, _)
SubClrsSwappedFrom(s, k) ==
  IF k > Len(REPLACABLE_CLRS) THEN s
  ELSE SubClrsSwappedFrom(
         Replace(s, REPLACABLE_CLRS[k][2], <<":">> \o REPLACABLE_CLRS[k][1]), k + 1)

css_sub_clrs_swapped(s) == SubClrsSwappedFrom(s, 1)

css_sub_clrs(s) == SubClrsFrom(s, 1)

(* Stage 12: # and six hex digits, replaced by shorten_clr of the match.    *)

css_shorten_hex_pat(s, i) ==
  IF s[i] = "#" /\ Span(s, i + 1, HexDigit) >= i + 7 THEN i + 6 ELSE 0

\* the first three digits instead of the first digit of every pair
shorten_clr_first_three(s, i, e) ==
  IF s[i + 1] = s[i + 2] /\ s[i + 3] = s[i + 4] /\ s[i + 5] = s[i + 6]
  THEN <<"#", s[i + 1], s[i + 2], s[i + 3]>>
  ELSE SubSeq(s, i, e)

shorten_clr(s, i, e) ==
  IF s[i + 1] = s[i + 2] /\ s[i + 3] = s[i + 4] /\ s[i + 5] = s[i + 6]
  THEN <<"#", s[i + 1], s[i + 3], s[i + 5]>>
  ELSE SubSeq(s, i, e)

css_shorten_hex(s) ==
  LET E == [i \in 1..Len(s) |-> css_shorten_hex_pat(s, i)]
  IN Sub(E,
         [i \in 1..Len(s) |->
            IF E[i] = 0 THEN <<>> ELSE shorten_clr(s, i, E[i])],
         s, 1)

(* Stage 13: rgba(...) replaced by clrs.rgba_to_hex of the match.           *)

RgbaArgs(s, i) ==
  IF IsAt(s, i, <<"r", "g", "b", "a", "(">>) THEN Args(s, i + 5, Digit, FALSE, 4) ELSE <<>>

css_rgba2hex_pat(s, i) == ArgsEnd(RgbaArgs(s, i))

css_rgba2hex_repl(s, i, e) ==
  LET g == RgbaArgs(s, i)
  IN rgba_to_hex(Group(s, g, 1), Group(s, g, 2), Group(s, g, 3), Group(s, g, 4))

css_rgba2hex(s) ==
  LET E == [i \in 1..Len(s) |-> css_rgba2hex_pat(s, i)]
  IN Sub(E,
         [i \in 1..Len(s) |->
            IF E[i] = 0 THEN <<>> ELSE css_rgba2hex_repl(s, i, E[i])],
         s, 1)

(* Stage 14: hsla(...) replaced by clrs.hsla_to_hex of the match.           *)

HslaArgs(s, i) ==
  IF IsAt(s, i, <<"h", "s", "l", "a", "(">>) THEN Args(s, i + 5, Numeric, TRUE, 4) ELSE <<>>

css_hsla2hex_pat(s, i) == ArgsEnd(HslaArgs(s, i))

css_hsla2hex_repl(s, i, e) ==
  LET g == HslaArgs(s, i)
  IN hsla_to_hex(Group(s, g, 1), Group(s, g, 2), Group(s, g, 3), Group(s, g, 4))

css_hsla2hex(s) ==
  LET E == [i \in 1..Len(s) |-> css_hsla2hex_pat(s, i)]
  IN Sub(E,
         [i \in 1..Len(s) |->
            IF E[i] = 0 THEN <<>> ELSE css_hsla2hex_repl(s, i, E[i])],
         s, 1)

(* Stage 15: [^\}\{]+\{\} replaced by the empty string.                     *)

css_remove_empty_rules_pat(s, i) ==
  LET k == SpanNot(s, i, {"{", "}"})
  IN IF k > i /\ IsAt(s, k, <<"{", "}">>) THEN k + 1 ELSE 0

css_remove_empty_rules_repl(s, i, e) == <<>>

\* Pattern.sub with count=1: only the first match is replaced
css_remove_empty_rules_once(s) ==
  LET i == CHOOSE j \in 1..(Len(s) + 1) :
             /\ j <= Len(s) => css_remove_empty_rules_pat(s, j) > 0
             /\ \A m \in 1..(j - 1) : css_remove_empty_rules_pat(s, m) = 0
  IN IF i > Len(s) THEN s
     ELSE SubSeq(s, 1, i - 1) \o SubSeq(s, css_remove_empty_rules_pat(s, i) + 1, Len(s))

css_remove_empty_rules(s) ==
  LET E == [i \in 1..Len(s) |-> css_remove_empty_rules_pat(s, i)]
  IN Sub(E,
         [i \in 1..Len(s) |->
            IF E[i] = 0 THEN <<>> ELSE css_remove_empty_rules_repl(s, i, E[i])],
         s, 1)

(* Stage 16: the two str.replace calls on font-weight.                      *)

css_font_weights(s) ==
  Replace(Replace(s, <<"f", "o", "n", "t", "-", "w", "e", "i", "g", "h", "t", ":", "n", "o", "r", "m", "a", "l">>, <<"f", "o", "n", "t", "-", "w", "e", "i", "g", "h", "t", ":", "4", "0", "0">>),
          <<"f", "o", "n", "t", "-", "w", "e", "i", "g", "h", "t", ":", "b", "o", "l", "d">>, <<"f", "o", "n", "t", "-", "w", "e", "i", "g", "h", "t", ":", "7", "0", "0">>)

-----------------------------------------------------------------------------
(* minify_css: the sixteen stages in the order of the source, each on the   *)
(* result of the one before.                                                *)

\* the value of pc once minify_css has returned
Returned == 17

\* the statement css = stage(css) of minify_css that is number n
Stage(n, result) ==
  /\ pc = n
  /\ css' = result
  /\ prev' = css
  /\ pc' = n + 1
  /\ alpha' = (alpha \/ (run = 1 /\ n \in {13, 14} /\ result # css))
  /\ UNCHANGED <<input, run, first>>

RemoveComments == Stage(1, css_remove_comments(css))
RemoveWhitespace == Stage(2, css_remove_whitespace(css))
UnquoteSelectors == Stage(3, css_unquote_selectors(css))
RemoveUrlQuotes == Stage(4, css_remove_url_quotes(css))
RemoveSemicolons == Stage(5, css_remove_semicolons(css))
NoneToZero == Stage(6, css_none_to_zero(css))
SubZeroUnits == Stage(7, css_sub_zero_units(css))
ShortenFloats == Stage(8, css_shorten_floats(css))
Rgb2Hex == Stage(9, css_rgb2hex(css))
Hsl2Hex == Stage(10, css_hsl2hex(css))
SubClrs == Stage(11, css_sub_clrs(css))
ShortenHex == Stage(12, css_shorten_hex(css))
Rgba2Hex == Stage(13, css_rgba2hex(css))
Hsla2Hex == Stage(14, css_hsla2hex(css))
RemoveEmptyRules == Stage(15, css_remove_empty_rules(css))
FontWeights == Stage(16, css_font_weights(css))

\* the caller minifies what minify_css returned once more
MinifyAgain ==
  /\ pc = Returned
  /\ run = 1
  /\ run' = 2
  /\ first' = css
  /\ prev' = css
  /\ pc' = 1
  /\ UNCHANGED <<input, css, alpha>>

Next ==
  \/ RemoveComments \/ RemoveWhitespace \/ UnquoteSelectors \/ RemoveUrlQuotes
  \/ RemoveSemicolons \/ NoneToZero \/ SubZeroUnits \/ ShortenFloats
  \/ Rgb2Hex \/ Hsl2Hex \/ SubClrs \/ ShortenHex \/ Rgba2Hex \/ Hsla2Hex
  \/ RemoveEmptyRules \/ FontWeights \/ MinifyAgain

\* minify_css is called with the string inp
Call(inp) ==
  /\ input = inp
  /\ css = inp
  /\ prev = inp
  /\ pc = 1
  /\ run = 1
  /\ first = <<>>
  /\ alpha = FALSE

-----------------------------------------------------------------------------
(* The strings minify_css is called with: concatenations of a few pieces of *)
(* style sheets, and the examples of the documentation.                     *)

\* the concatenations of at most n members of F
RECURSIVE Concats(_, _)
Concats(F, n) ==
  IF n = 0 THEN {<<>>}
  ELSE LET P == Concats(F, n - 1) IN P \cup {p \o f : p \in P, f \in F}

\* the most pieces of a string of rules, of colours, of values
MaxRulePieces == 4
MaxColourPieces == 3
MaxValuePieces == 3

RulePieces == {
  <<"a">>,
  <<"{">>,
  <<"}">>,
  <<";">>,
  <<" ">>,
  <<"b", ":", "c">> }

ColourPieces == {
  <<"a", "{", "c", ":">>,
  <<"}">>,
  <<"r", "g", "b", "(", "2", "5", "5", ",", " ", "2", "5", "5", ",", " ", "0", ")">>,
  <<"w", "h", "i", "t", "e">>,
  <<"#", "a", "a", "b", "b", "c", "c", "d", "d">>,
  <<"#", "a", "a", "b", "b", "c", "c">>,
  <<"r", "g", "b", "a", "(", "0", ",", "0", ",", "0", ",", ".", "5", ")">>,
  <<"h", "s", "l", "(", "1", "2", "0", ",", " ", "1", "0", "0", "%", ",", " ", "2", "5", "%", ")">>,
  <<"h", "s", "l", "a", "(", "2", "0", "0", ",", "5", "0", "%", ",", "4", "0", "%", ",", "1", ")">>,
  <<"f", "f">> }

ValuePieces == {
  <<"x", "{", "m", ":">>,
  <<"}">>,
  <<" ">>,
  <<"0">>,
  <<"0", ".", "5", "0", "0", "e", "m">>,
  <<"p", "x">>,
  <<"b", "o", "r", "d", "e", "r", ":", "n", "o", "n", "e">>,
  <<"f", "o", "n", "t", "-", "w", "e", "i", "g", "h", "t", ":", "b", "o", "l", "d">>,
  <<"u", "r", "l", "(", "'", "x", "'", ")">>,
  <<"[", "a", "=", "\"", "b", "\"", "]">>,
  <<"/", "*", "c", "*", "/">>,
  <<"a", "n", "d", " ", "(">> }

Examples == {
  <<"a", " ", "{", " ", "c", "o", "l", "o", "r", ":", " ", "r", "g", "b", "(", "2", "5", "5", ",", " ", "0", ",", " ", "0", ")", ";", " ", "}">>,
  <<"a", "{", "b", "o", "r", "d", "e", "r", ":", "n", "o", "n", "e", "}">>,
  <<".", "x", " ", "{", " ", "m", "a", "r", "g", "i", "n", ":", " ", "0", ".", "5", "0", "0", "e", "m", ";", " ", "}">>,
  <<"a", "{", "}">>,
  <<"/", "*", " ", "h", "i", " ", "*", "/", " ", "a", "{", "c", "o", "l", "o", "r", ":", "w", "h", "i", "t", "e", "}">>,
  <<"a", " ", "{", " ", "f", "o", "n", "t", "-", "w", "e", "i", "g", "h", "t", ":", " ", "b", "o", "l", "d", ";", " ", "}">>,
  <<"@", "i", "m", "p", "o", "r", "t", " ", "u", "r", "l", "(", "x", ")", ";", "a", "{", "}">>,
  <<"@", "m", "e", "d", "i", "a", " ", "x", "{", "a", "{", "}", "}">>,
  <<"a", "{", "c", "o", "l", "o", "r", ":", "#", "a", "a", "b", "b", "c", "c", "d", "d", "}">>,
  <<"a", "{", "b", ":", "c", ";", ";", "}">>,
  <<"a", "{", "}", "b", "{", "}">> }

Inputs ==
  Concats(RulePieces, MaxRulePieces) \cup Concats(ColourPieces, MaxColourPieces)
    \cup Concats(ValuePieces, MaxValuePieces) \cup Examples

Init == \E inp \in Inputs : Call(inp)

Spec == Init /\ [][Next]_vars

-----------------------------------------------------------------------------
(* The declarations color: rgb(r, g, b) whose bytes are multiples of 17.    *)

\* str(n)
RECURSIVE Dec(_)
Dec(n) == IF n < 10 THEN <<HexChars[n + 1]>> ELSE Append(Dec(n \div 10), HexChars[(n % 10) + 1])

\* the hex digit that, doubled, is the byte n
Nibble(n) == HexChars[(n \div 17) + 1]

DoubledBytes == {17 * k : k \in 0..15}

RgbDecl(r, g, b, gap, tail) ==
  <<"a", "{", "c", "o", "l", "o", "r", ":">> \o gap \o <<"r", "g", "b", "(">> \o Dec(r) \o <<",">> \o gap
    \o Dec(g) \o <<",">> \o gap \o Dec(b) \o <<")">> \o tail

\* the declaration and the text the conversion to #RGB makes of it
RgbCases ==
  {[inp |-> RgbDecl(r, g, b, gap, tail),
    out |-> <<"a", "{", "c", "o", "l", "o", "r", ":">> \o <<"#", Nibble(r), Nibble(g), Nibble(b), "}">>] :
     r \in DoubledBytes, g \in DoubledBytes, b \in DoubledBytes,
     gap \in {<<>>, <<" ">>}, tail \in {<<"}">>, <<";", "}">>}}

InitRgb == \E c \in RgbCases : Call(c.inp)

SpecRgb == InitRgb /\ [][Next]_vars

-----------------------------------------------------------------------------
(* What the properties below speak of.                                      *)

Brace == {"{", "}"}

\* at i ends a selector without braces that "{}" follows
EmptyRuleAt(s, i) == s[i] \notin Brace /\ IsAt(s, i + 1, <<"{", "}">>)

HasEmptyRule(s) == \E i \in 1..Len(s) : EmptyRuleAt(s, i)

\* an empty rule whose selector starts right after an opening brace
NestedEmptyRule(s) ==
  \E i \in 1..Len(s) :
    /\ s[i] = "{"
    /\ SpanNot(s, i + 1, Brace) > i + 1
    /\ IsAt(s, SpanNot(s, i + 1, Brace), <<"{", "}">>)

\* no whitespace next to a punctuation character, none at either end
WhitespaceNormal(s) ==
  /\ s # <<>> => (s[1] \notin WS /\ s[Len(s)] \notin WS)
  /\ \A i \in 1..(Len(s) - 1) :
       /\ ~(s[i] \in WS /\ s[i + 1] \in Punct)
       /\ ~(s[i] \in Punct /\ s[i + 1] \in WS)

\* the first index of the run of characters that are not braces and that ends at j
RECURSIVE RunStart(_, _)
RunStart(s, j) == IF j >= 1 /\ s[j] \notin Brace THEN RunStart(s, j - 1) ELSE j + 1

\* at i stands # and exactly n hex digits, every pair of them a doubled digit
DoubledHexAt(s, i, n) ==
  /\ s[i] = "#"
  /\ Span(s, i + 1, HexDigit) = i + n + 1
  /\ \A k \in 1..(n \div 2) : s[i + 2 * k - 1] = s[i + 2 * k]

\* the colour of DoubledHexAt(s, i, n) with one digit for every pair
ShortHex(s, i, n) == <<"#">> \o [k \in 1..(n \div 2) |-> s[i + 2 * k]]

\* the hex colour c stands in s, no hex digit after it
HasHexColour(s, c) ==
  \E j \in 1..Len(s) : IsAt(s, j, c) /\ At(s, j + Len(c)) \notin HexDigit

MarginExample == <<".", "x", " ", "{", " ", "m", "a", "r", "g", "i", "n", ":", " ", "0", ".", "5", "0", "0", "e", "m", ";", " ", "}">>

-----------------------------------------------------------------------------
(* C1: what minify_css returns is never longer than what it was called      *)
(* with.                                                                    *)
C1_OutputNoLonger == (pc = Returned /\ run = 1) => Len(css) <= Len(input)

\* a call that returned a shorter, non-empty text for a text with a colour function
C1_Witness ==
  /\ pc = Returned /\ run = 1
  /\ Contains(input, <<"r", "g", "b", "(">>)
  /\ css # <<>> /\ Len(css) < Len(input)

(* C2: a declaration whose value is rgb(r, g, b), every byte a multiple of  *)
(* 17, is returned with the three-digit colour #RGB as its value, and with  *)
(* no rgb( left: the conversion to hex runs before the shortening of hex.   *)
C2_RgbToShortHex ==
  (pc = Returned /\ run = 1) =>
    /\ [inp |-> input, out |-> css] \in RgbCases
    /\ ~Contains(css, <<"r", "g", "b", "(">>)

\* rgb(255, 0, 17) with whitespace after the commas came back as #f01
C2_Witness ==
  /\ pc = Returned /\ run = 1
  /\ input = RgbDecl(255, 0, 17, <<" ">>, <<"}">>)
  /\ css = <<"a", "{", "c", "o", "l", "o", "r", ":", "#", "f", "0", "1", "}">>

(* C3: for every entry of the table of replaceable colours, the stage of    *)
(* the named colours turns a colon and the keyword into a colon and the hex *)
(* value: where its input had :keyword its output has :hexvalue.            *)
C3_ColonBeforeHexValue ==
  pc = 12 =>
    \A k \in 1..Len(REPLACABLE_CLRS) :
      Contains(prev, <<":">> \o REPLACABLE_CLRS[k][1])
        => Contains(css, <<":">> \o REPLACABLE_CLRS[k][2])

(* C4: minifying what minify_css returned does not give a shorter text,     *)
(* unless the rgba or hsla stage of the first call produced a hex colour.   *)
C4_SecondRunSameLength ==
  (pc = Returned /\ run = 2 /\ ~alpha) => Len(css) = Len(first)

(* C4 as amended: minifying what minify_css returned never gives a longer   *)
(* text.                                                                    *)
C4_SecondRunNoLonger == (pc = Returned /\ run = 2) => Len(css) <= Len(first)

\* a second call, with no rgba or hsla colour in the first, that returned a
\* shorter text than it was given: the first call left a rule that the removal
\* of the empty rule inside it had emptied (and no semicolon before a brace)
C4_Witness ==
  /\ pc = Returned /\ run = 2 /\ ~alpha
  /\ first # input
  /\ HasEmptyRule(first) /\ ~Contains(first, <<";", "}">>)
  /\ Len(css) < Len(first)

(* C5: the stage that shortens hex colours turns #xxyyzzaa, every channel a *)
(* doubled digit, into #xyza, and #xxyyzz into #xyz.                        *)
C5_HexShortened ==
  pc = 13 =>
    \A i \in 1..Len(prev) : \A n \in {6, 8} :
      DoubledHexAt(prev, i, n) => HasHexColour(css, ShortHex(prev, i, n))

(* C6: what minify_css returns has no empty rule, no selector without       *)
(* braces with {} right after it, also where a rule became empty by the     *)
(* removal of an empty rule inside it.                                      *)
C6_NoEmptyRule == (pc = Returned /\ run = 1) => ~HasEmptyRule(css)

(* C6 as amended: the stage of the empty rules leaves an empty rule only    *)
(* where its input had an empty rule right inside the braces of another     *)
(* rule (it is one pass), and the last stage neither adds nor removes one.  *)
C6_NoEmptyRuleUnlessNested ==
  /\ pc = 16 => (HasEmptyRule(css) => NestedEmptyRule(prev))
  /\ pc = Returned => (HasEmptyRule(css) <=> HasEmptyRule(prev))

\* the stage removed every empty rule of a text that had some, none of them nested
C6_Witness ==
  /\ pc = 16
  /\ At(prev, 1) \notin Brace
  /\ HasEmptyRule(prev) /\ ~NestedEmptyRule(prev)
  /\ css # <<>> /\ ~HasEmptyRule(css)

(* C7: for .x { margin: 0.500em; } minify_css returns a text whose margin   *)
(* is .5: no leading zero, and no em after the number.                      *)
C7_MarginIsHalf ==
  (pc = Returned /\ run = 1 /\ input = MarginExample)
    => css = <<".", "x", "{", "m", "a", "r", "g", "i", "n", ":", ".", "5", "}">>

(* C7 as amended: for .x { margin: 0.500em; } minify_css returns            *)
(* .x{margin:.500em}: the leading zero is dropped, the zeros after the 5    *)
(* and the unit em stay.                                                    *)
C7_MarginKeepsUnit ==
  (pc = Returned /\ run = 1 /\ input = MarginExample)
    => css = <<".", "x", "{", "m", "a", "r", "g", "i", "n", ":", ".", "5", "0", "0", "e", "m", "}">>

\* the call on the example returned, and changed the text
C7_Witness ==
  /\ pc = Returned /\ run = 1
  /\ input = MarginExample
  /\ css # input

(* C8: what the stage of the redundant semicolons returns has no semicolon  *)
(* right before a closing brace and no two semicolons in a row.             *)
C8_NoRedundantSemicolon ==
  pc = 6 => (~Contains(css, <<";", "}">>) /\ ~Contains(css, <<";", ";">>))

(* C9: the stage of the empty rules deletes the empty rule alone: the       *)
(* statements that end in a semicolon and stand before the selector of an   *)
(* empty rule, inside the same braces, are still in its output.  (P: where  *)
(* the statements before the selector that ends at k - 1 end.)              *)
C9_StatementsKept ==
  pc = 16 =>
    \A k \in 2..Len(prev) :
      (IsAt(prev, k, <<"{", "}">>) /\ prev[k - 1] \notin Brace) =>
        LET P == {p \in (RunStart(prev, k - 1) + 1)..(k - 2) : prev[p] = ";"}
        IN P # {} =>
             Contains(css, SubSeq(prev, RunStart(prev, k - 1),
                                  CHOOSE p \in P : \A q \in P : q <= p))

(* C10: after the whitespace stage, and after every later stage up to the   *)
(* text minify_css returns, no whitespace stands next to { } : ; or , and   *)
(* none stands at either end of the text.                                   *)
C10_WhitespaceNormalForm == (run = 1 /\ pc >= 3) => WhitespaceNormal(css)

\* a returned text that still has whitespace, for an input not in normal form
C10_Witness ==
  /\ pc = Returned /\ run = 1
  /\ ~WhitespaceNormal(input)
  /\ \E i \in 1..Len(css) : css[i] \in WS

=============================================================================
